---- MODULE Spec2Model ----
(***************************************************************************)
(* XlaLaunchKernel (oneflow/xla/of2xla/xla_launch_kernel.cpp): the         *)
(* compile-cache-and-launch pipeline of one launch unit.                   *)
(*                                                                         *)
(*   Spec       invocations of ForwardDataContent on one kernel object,    *)
(*              interleaved statement by statement                         *)
(*   SpecAlias  AliasMutableInputsAndOutputs as a pure function            *)
(*   SpecSig    the signature BuildLocalExecutable computes, for two calls *)
(***************************************************************************)
EXTENDS Integers, Sequences, FiniteSets, TLC

VARIABLES
  device_type,         \* the kernel's template parameter
  op,                  \* the kernel's operator: name, input/output bns, launch attr
  ctx_ordinal,         \* the ordinal of the device the kernel's device_ctx is on
  scenario,            \* how the caller uses the kernel: "single" (one call, any
                       \* operator and collaborator behaviour), "serial" (calls one
                       \* after another), "interleaved" (calls from several threads)
  compilation_cache_,  \* the kernel's lazily created cache
  artifacts,           \* every CompilationResult made so far, by the number of
                       \* the call that compiled it (its address)
  inv,                 \* per calling thread: the locals of its ForwardDataContent
  fatal,               \* the CHECK failure that aborted the process, if any
  n_calls,             \* invocations begun so far
  compile_calls,       \* history: compiler invocations per signature
  recorded,            \* history: per signature, the artifacts recorded and the
                       \* one recorded last
  got,                 \* history: per signature, what GetRecord returned on the
                       \* current cache object since the last Record
  alias_call,          \* SpecAlias: one call of AliasMutableInputsAndOutputs
  sig_call             \* SpecSig: two calls' signatures

main_vars == <<device_type, op, ctx_ordinal, scenario, compilation_cache_, artifacts, inv, fatal,
               n_calls, compile_calls, recorded, got>>

vars == <<main_vars, alias_call, sig_call>>

(***************************************************************************)
(* Bounds                                                                  *)
(***************************************************************************)
MaxAliasEntries == 3
MaxAliasReturns == 2
MaxSigEntries == 2
MaxOrdinal == 1
MaxThreads == 2
MaxCalls == 3
MaxEntries == 1
MaxOutputs == 1

NullPtr == 0

SeqsUpTo(S, n) == UNION {[1..k -> S] : k \in 0..n}

(***************************************************************************)
(* mola::LaunchAttrHelper: the declared mutable arguments and the output   *)
(* name each one is rotated to.                                            *)
(***************************************************************************)
IsMutableArg(attr, entry_name) == entry_name \in attr.mutable

OutputArg(attr, entry_name) == <<entry_name, "out">>

(***************************************************************************)
(* AliasMutableInputsAndOutputs.  st is the triple the function appends    *)
(* to: return_blobs, return_blob_names, aliases.  i is the 0-based loop    *)
(* index of the source; TLA+ sequences are 1-based.                        *)
(***************************************************************************)
\* mutant: the output slot is read after the tensor was appended
AliasPush_SlotAfterAppend(attr, entry_blobs, entry_blob_names, i, st) ==
  [ aliases |-> Append(st.aliases,
                       [ output_index |-> <<Len(st.return_blobs) + 1>>,
                         param_number |-> i,
                         param_index |-> <<>> ]),
    return_blobs |-> Append(st.return_blobs, entry_blobs[i + 1]),
    return_blob_names |->
        Append(st.return_blob_names, OutputArg(attr, entry_blob_names[i + 1])) ]

AliasPush(attr, entry_blobs, entry_blob_names, i, st) ==
  [ aliases |-> Append(st.aliases,
                       [ output_index |-> <<Len(st.return_blobs)>>,
                         param_number |-> i,
                         param_index |-> <<>> ]),
    return_blobs |-> Append(st.return_blobs, entry_blobs[i + 1]),
    return_blob_names |->
        Append(st.return_blob_names, OutputArg(attr, entry_blob_names[i + 1])) ]

\* mutant: a name already aliased is skipped
AliasStep_SkipsRepeatedName(attr, entry_blobs, entry_blob_names, i, st) ==
  IF /\ IsMutableArg(attr, entry_blob_names[i + 1])
     /\ \A k \in 1..Len(st.aliases) :
          entry_blob_names[st.aliases[k].param_number + 1] # entry_blob_names[i + 1]
  THEN AliasPush(attr, entry_blobs, entry_blob_names, i, st)
  ELSE st

\* mutant: the mutable test is dropped, every entry is aliased
AliasStep_AliasesEveryEntry(attr, entry_blobs, entry_blob_names, i, st) ==
  AliasPush(attr, entry_blobs, entry_blob_names, i, st)

AliasStep(attr, entry_blobs, entry_blob_names, i, st) ==
  IF IsMutableArg(attr, entry_blob_names[i + 1])
  THEN AliasPush(attr, entry_blobs, entry_blob_names, i, st)
  ELSE st

RECURSIVE AliasLoop(_, _, _, _, _)
AliasLoop(attr, entry_blobs, entry_blob_names, i, st) ==
  IF i < Len(entry_blobs)
  THEN AliasLoop(attr, entry_blobs, entry_blob_names, i + 1,
                 AliasStep(attr, entry_blobs, entry_blob_names, i, st))
  ELSE st

\* ok = FALSE: CHECK_EQ(entry_blobs.size(), entry_blob_names.size()) failed.
AliasMutableInputsAndOutputs(attr, entry_blobs, entry_blob_names, return_blobs, return_blob_names, aliases) ==
  LET st0 == [ return_blobs |-> return_blobs,
               return_blob_names |-> return_blob_names,
               aliases |-> aliases ]
  IN IF Len(entry_blobs) # Len(entry_blob_names)
     THEN [ok |-> FALSE, st |-> st0]
     ELSE [ok |-> TRUE,
           st |-> AliasLoop(attr, entry_blobs, entry_blob_names, 0, st0)]

(***************************************************************************)
(* Blobs.  A Blob is the record of what the kernel reads of it: shape,     *)
(* element type, data pointer (NullPtr when the blob is body disabled) and *)
(* ByteSizeOfDataContentField.  The tensor's values live behind dptr and   *)
(* are no part of the record.                                              *)
(***************************************************************************)
Blob(shape, data_type, dptr, byte_size) ==
  [shape |-> shape, data_type |-> data_type, dptr |-> dptr, byte_size |-> byte_size]

(***************************************************************************)
(* mola::ComputeSignature and mola::Signature's equality: the key is the   *)
(* subgraph name, the device ordinal and the entry shapes and types.       *)
(***************************************************************************)
ComputeSignature(name, device_ordinal, entry_blobs) ==
  [ name |-> name,
    device_ordinal |-> device_ordinal,
    entry_shapes |-> [i \in 1..Len(entry_blobs) |->
                        <<entry_blobs[i].shape, entry_blobs[i].data_type>>] ]

\* mutant: the ordinal of the default device is passed for every call
SignatureOfCall_DefaultOrdinal(launch_ctx, entry_blobs, return_blobs, aliases) ==
  ComputeSignature(launch_ctx.builder_name, 0, entry_blobs)

\* BuildLocalExecutable, lines 27-29: the signature of one call
SignatureOfCall(launch_ctx, entry_blobs, return_blobs, aliases) ==
  ComputeSignature(launch_ctx.builder_name, launch_ctx.device_ordinal, entry_blobs)


(***************************************************************************)
(* Spec: the launch unit.                                                  *)
(***************************************************************************)
Threads == 1..MaxThreads

EmptyMap == [x \in {} |-> 0]

NoFatal == [kind |-> "none", thread |-> 0]

\* the kernel as constructed, with no call made on it: the launch unit's
\* part of the state under SpecAlias and SpecSig
MainUnused ==
  /\ device_type = "kCPU"
  /\ op = [name |-> "unused"]
  /\ ctx_ordinal = 0
  /\ scenario = "single"
  /\ compilation_cache_ = [null |-> TRUE, records |-> EmptyMap]
  /\ artifacts = EmptyMap
  /\ inv = <<>>
  /\ fatal = NoFatal
  /\ n_calls = 0
  /\ compile_calls = EmptyMap
  /\ recorded = EmptyMap
  /\ got = EmptyMap

DeviceTypes == {"kCPU", "kGPU"}

EntryName(i) == <<"in", i>>

\* the operators a launch kernel can be built for
Ops ==
  { [ name |-> "add1",
      input_bns |-> [i \in 1..n |-> EntryName(i)],
      output_bns |-> [k \in 1..m |-> <<"out", k>>],
      attr |-> [mutable |-> mut] ] :
    <<n, m, mut>> \in
      { q \in (1..MaxEntries) \X (0..MaxOutputs) \X (SUBSET {EntryName(i) : i \in 1..MaxEntries}) :
          q[3] \subseteq {EntryName(i) : i \in 1..q[1]} } }

\* one input, one output, nothing mutable
PlainOp ==
  [ name |-> "add1", input_bns |-> <<EntryName(1)>>, output_bns |-> <<<<"out", 1>>>>,
    attr |-> [mutable |-> {}] ]

\* one input, declared mutable, and one ordinary output
MutableOp ==
  [ name |-> "add1", input_bns |-> <<EntryName(1)>>, output_bns |-> <<<<"out", 1>>>>,
    attr |-> [mutable |-> {EntryName(1)}] ]

Scenarios == {"single", "serial", "interleaved"}

\* the blobs BnInOp2Blob can hand out for an input: one of shape (4), one
\* of shape (8), and where calls do not overlap another buffer of shape (4)
\* and (in a single call) a body-disabled one
EntryBlobs ==
  { Blob(<<4>>, "kFloat", 11, 16), Blob(<<8>>, "kFloat", 13, 32) }
  \cup
  (IF scenario # "interleaved" THEN {Blob(<<4>>, "kFloat", 12, 16)} ELSE {})
  \cup
  (IF scenario = "single" THEN {Blob(<<4>>, "kFloat", NullPtr, 16)} ELSE {})

\* the blobs one call can be given: the shapes being interchangeable, the
\* first of the interleaved calls is given the one of shape (4)
BlobsOfCall ==
  IF scenario = "interleaved" /\ n_calls = 0
  THEN {Blob(<<4>>, "kFloat", 11, 16)}
  ELSE EntryBlobs

OutputBlob(k) == Blob(<<4>>, "kFloat", 30 + k, 16)

ScratchPtr == 99

IdleInv ==
  [ pc |-> "idle", call |-> 0, entry_blobs |-> <<>>, return_blobs |-> <<>>,
    return_blob_names |-> <<>>, aliases |-> <<>>,
    launch_ctx |-> [builder_name |-> "", device_ordinal |-> 0, result_buffers |-> <<>>],
    signature |-> <<>>, compile_result |-> 0, result |-> 0,
    block_host_until_done |-> FALSE, arguments |-> <<>>,
    run_result |-> <<>>, events |-> <<>> ]

\* A single call is explored for every operator on both device types,
\* serial calls for a plain and a mutable operator on both device types,
\* interleaved calls for the plain operator on a host device.
Init ==
  /\ scenario \in Scenarios
  /\ device_type \in IF scenario = "interleaved" THEN {"kCPU"} ELSE DeviceTypes
  /\ op \in IF scenario = "single" THEN Ops
            ELSE IF scenario = "serial" THEN {PlainOp, MutableOp} ELSE {PlainOp}
  /\ ctx_ordinal \in IF scenario = "serial" THEN 0..MaxOrdinal ELSE {0}
  /\ compilation_cache_ = [null |-> TRUE, records |-> EmptyMap]
  /\ artifacts = EmptyMap
  /\ inv = [t \in Threads |-> IdleInv]
  /\ fatal = NoFatal
  /\ n_calls = 0
  /\ compile_calls = EmptyMap
  /\ recorded = EmptyMap
  /\ got = EmptyMap
  /\ alias_call = [pc |-> "unused"]
  /\ sig_call = [pc |-> "unused"]

Running == fatal = NoFatal

At(t, label) == Running /\ inv[t].pc = label

\* A failed CHECK aborts the process: the failing thread's locals are kept
\* as they were at the CHECK, every other thread is gone.
Abort(t, kind) ==
  /\ fatal' = [kind |-> kind, thread |-> t]
  /\ inv' = [u \in Threads |->
               IF u = t THEN [inv[t] EXCEPT !.pc = "aborted"] ELSE [IdleInv EXCEPT !.pc = "dead"]]

Bump(f, x) ==
  [y \in DOMAIN f \cup {x} |-> IF y = x THEN (IF x \in DOMAIN f THEN f[x] + 1 ELSE 1) ELSE f[y]]

(***************************************************************************)
(* mola::XlaCompilationCache: a map from Signature to CompilationResult.   *)
(* GetRecord returns the entry's raw pointer, or 0 (nullptr) on a miss.    *)
(* Record inserts or overwrites.                                           *)
(***************************************************************************)
GetRecord(cache, signature) ==
  IF signature \in DOMAIN cache.records THEN cache.records[signature] ELSE 0

Record(cache, signature, result) ==
  [ null |-> cache.null,
    records |-> [s \in DOMAIN cache.records \cup {signature} |->
                   IF s = signature THEN result ELSE cache.records[s]] ]

\* A CompilationResult lives while a shared_ptr to it does: one held by an
\* entry of the current cache object, or a thread's local `result`.
Alive(a) ==
  \/ \E s \in DOMAIN compilation_cache_.records : compilation_cache_.records[s] = a
  \/ \E t \in Threads : inv[t].result = a

\* what *compile_result reads: the artifact, also through a dangling pointer
\* whose memory still holds it
ArtifactAt(a) ==
  IF a \in DOMAIN artifacts THEN artifacts[a]
  ELSE [signature |-> <<>>, xla_input_shapes |-> <<>>, n_allocation_indices |-> 0]

\* outcomes of dereferencing compile_result: reading freed memory is
\* undefined, it either still reads the old artifact or faults
DerefOutcomes(t) ==
  IF Alive(inv[t].compile_result) THEN {"ok"} ELSE {"stale", "fault"}

\* calls explored: one, MaxCalls in a row, or one per thread
CallLimit ==
  IF scenario = "single" THEN 1 ELSE IF scenario = "serial" THEN MaxCalls ELSE MaxThreads

\* mutant: the aliases are not resolved before BuildLocalExecutable
Begin_WithoutAliasResolution(t) ==
  /\ At(t, "idle")
  /\ n_calls < CallLimit
  /\ scenario # "interleaved" => \A u \in Threads : inv[u].pc = "idle"
  /\ \A u \in Threads : u < t => inv[u].pc # "idle"
  /\ \E eb \in [1..Len(op.input_bns) -> BlobsOfCall] :
       inv' = [inv EXCEPT ![t] =
                 [ IdleInv EXCEPT
                     !.pc = "ble_check",
                     !.call = n_calls + 1,
                     !.entry_blobs = eb,
                     !.return_blobs = [k \in 1..Len(op.output_bns) |-> OutputBlob(k)],
                     !.return_blob_names = op.output_bns,
                     !.launch_ctx = [builder_name |-> op.name, device_ordinal |-> ctx_ordinal,
                                     result_buffers |-> <<>>] ]]
  /\ n_calls' = n_calls + 1
  /\ UNCHANGED <<device_type, op, ctx_ordinal, scenario, compilation_cache_, artifacts, fatal,
                 compile_calls, recorded, got, alias_call, sig_call>>

\* ForwardDataContent, lines 157-183: collect the blobs, resolve the
\* aliases, make the launch context, call BuildLocalExecutable.  Threads are
\* interchangeable, so a thread starts a call only while every thread of a
\* lower number is in one.
Begin(t) ==
  /\ At(t, "idle")
  /\ n_calls < CallLimit
  /\ scenario # "interleaved" => \A u \in Threads : inv[u].pc = "idle"
  /\ \A u \in Threads : u < t => inv[u].pc # "idle"
  /\ \E eb \in [1..Len(op.input_bns) -> BlobsOfCall] :
       LET r == AliasMutableInputsAndOutputs(op.attr, eb, op.input_bns,
                  [k \in 1..Len(op.output_bns) |-> OutputBlob(k)], op.output_bns, <<>>)
       IN inv' = [inv EXCEPT ![t] =
                    [ IdleInv EXCEPT
                        !.pc = "ble_check",
                        !.call = n_calls + 1,
                        !.entry_blobs = eb,
                        !.return_blobs = r.st.return_blobs,
                        !.return_blob_names = r.st.return_blob_names,
                        !.aliases = r.st.aliases,
                        !.launch_ctx = [builder_name |-> op.name, device_ordinal |-> ctx_ordinal,
                                        result_buffers |-> <<>>],
                        !.events = <<"alias">> ]]
  /\ n_calls' = n_calls + 1
  /\ UNCHANGED <<device_type, op, ctx_ordinal, scenario, compilation_cache_, artifacts, fatal,
                 compile_calls, recorded, got, alias_call, sig_call>>

\* BuildLocalExecutable, line 23: if (!compilation_cache_)
BLE_CheckCache(t) ==
  /\ At(t, "ble_check")
  /\ inv' = [inv EXCEPT ![t].pc = IF compilation_cache_.null THEN "ble_create" ELSE "ble_get"]
  /\ UNCHANGED <<device_type, op, ctx_ordinal, scenario, compilation_cache_, artifacts, fatal,
                 n_calls, compile_calls, recorded, got, alias_call, sig_call>>

\* line 24: compilation_cache_.reset(new XlaCompilationCache); the cache
\* object held before, if any, is destroyed with its entries
BLE_CreateCache(t) ==
  /\ At(t, "ble_create")
  /\ compilation_cache_' = [null |-> FALSE, records |-> EmptyMap]
  /\ got' = EmptyMap
  /\ inv' = [inv EXCEPT ![t].pc = "ble_get"]
  /\ UNCHANGED <<device_type, op, ctx_ordinal, scenario, artifacts, fatal,
                 n_calls, compile_calls, recorded, alias_call, sig_call>>

\* history of GetRecord calls: the values a signature's lookups returned
Fetched(log, signature, found) ==
  [s \in DOMAIN log \cup {signature} |->
     IF s = signature
     THEN (IF signature \in DOMAIN log THEN log[signature] ELSE {}) \cup {found}
     ELSE log[s]]

\* mutant: the lookup is skipped
force_compile_On == TRUE

\* line 30
force_compile == FALSE

\* mutant: the lookup takes the entry out of the cache
BLE_GetRecord_TakesEntry(t) ==
  /\ At(t, "ble_get")
  /\ LET c == inv[t]
         signature == SignatureOfCall(c.launch_ctx, c.entry_blobs, c.return_blobs, c.aliases)
         found == IF ~ force_compile THEN GetRecord(compilation_cache_, signature) ELSE 0
     IN /\ inv' = [inv EXCEPT ![t].signature = signature,
                              ![t].compile_result = found,
                              ![t].events = Append(@, "get"),
                              ![t].pc = IF found = 0 THEN "ble_compile" ELSE "fdc_check"]
        /\ got' = Fetched(got, signature, found)
        /\ compilation_cache_' =
             [ null |-> compilation_cache_.null,
               records |-> [s \in DOMAIN compilation_cache_.records \ {signature} |->
                              compilation_cache_.records[s]] ]
  /\ UNCHANGED <<device_type, op, ctx_ordinal, scenario, artifacts, fatal,
                 n_calls, compile_calls, recorded, alias_call, sig_call>>

\* lines 27-35: compute the signature, look it up
BLE_GetRecord(t) ==
  /\ At(t, "ble_get")
  /\ LET c == inv[t]
         signature == SignatureOfCall(c.launch_ctx, c.entry_blobs, c.return_blobs, c.aliases)
         found == IF ~ force_compile THEN GetRecord(compilation_cache_, signature) ELSE 0
     IN /\ inv' = [inv EXCEPT ![t].signature = signature,
                              ![t].compile_result = found,
                              ![t].events = Append(@, "get"),
                              ![t].pc = IF found = 0 THEN "ble_compile" ELSE "fdc_check"]
        /\ got' = Fetched(got, signature, found)
  /\ UNCHANGED <<device_type, op, ctx_ordinal, scenario, compilation_cache_, artifacts, fatal,
                 n_calls, compile_calls, recorded, alias_call, sig_call>>

(***************************************************************************)
(* mola::XlaGraphCompiler::Compile: what it can hand back for a call.  A   *)
(* CompilationResult carries the executable, the input shapes (here: per   *)
(* input, whether it is an array or a tuple shape) and the output shape;   *)
(* the executable's result allocation indices are counted with it.  A      *)
(* compilation that cannot produce an artifact is fatal inside Compile.    *)
(***************************************************************************)
CompileOutcomes(c) ==
  LET n == Len(c.entry_blobs)
      m == Len(c.return_blobs)
      arrays(k) == [i \in 1..k |-> "array"]
  IN { [xla_input_shapes |-> arrays(n), n_allocation_indices |-> m] }
     \cup
     IF scenario # "single" THEN {}
     ELSE { [xla_input_shapes |-> arrays(n + 1), n_allocation_indices |-> m],
            [xla_input_shapes |-> [i \in 1..n |-> IF i = n THEN "tuple" ELSE "array"],
             n_allocation_indices |-> m],
            [xla_input_shapes |-> arrays(n), n_allocation_indices |-> m + 1] }

\* lines 36-45: compile into the local shared_ptr `result`
BLE_Compile(t) ==
  /\ At(t, "ble_compile")
  /\ compile_calls' = Bump(compile_calls, inv[t].signature)
  /\ \/ /\ Abort(t, "CompilationFailure")
        /\ UNCHANGED artifacts
     \/ \E o \in CompileOutcomes(inv[t]) :
          /\ artifacts' = [a \in DOMAIN artifacts \cup {inv[t].call} |->
               IF a = inv[t].call
               THEN [ signature |-> inv[t].signature,
                      xla_input_shapes |-> o.xla_input_shapes,
                      n_allocation_indices |-> o.n_allocation_indices ]
               ELSE artifacts[a]]
          /\ inv' = [inv EXCEPT ![t].result = inv[t].call,
                                ![t].events = Append(@, "compile"),
                                ![t].pc = "ble_record"]
          /\ UNCHANGED fatal
  /\ UNCHANGED <<device_type, op, ctx_ordinal, scenario, compilation_cache_,
                 n_calls, recorded, got, alias_call, sig_call>>

\* history of Record calls
Noted(log, signature, result) ==
  [s \in DOMAIN log \cup {signature} |->
     IF s = signature
     THEN [last |-> result,
           all |-> (IF signature \in DOMAIN log THEN log[signature].all ELSE {}) \cup {result}]
     ELSE log[s]]

\* mutant: the artifact is recorded only if the signature has no entry yet
BLE_Record_KeepsExisting(t) ==
  /\ At(t, "ble_record")
  /\ compilation_cache_' =
       IF GetRecord(compilation_cache_, inv[t].signature) = 0
       THEN Record(compilation_cache_, inv[t].signature, inv[t].result)
       ELSE compilation_cache_
  /\ recorded' = Noted(recorded, inv[t].signature, inv[t].result)
  /\ got' = EmptyMap
  /\ inv' = [inv EXCEPT ![t].events = Append(@, "record"), ![t].pc = "ble_refetch"]
  /\ UNCHANGED <<device_type, op, ctx_ordinal, scenario, artifacts, fatal,
                 n_calls, compile_calls, alias_call, sig_call>>

\* line 47: compilation_cache_->Record(signature, result)
BLE_Record(t) ==
  /\ At(t, "ble_record")
  /\ compilation_cache_' = Record(compilation_cache_, inv[t].signature, inv[t].result)
  /\ recorded' = Noted(recorded, inv[t].signature, inv[t].result)
  /\ got' = EmptyMap
  /\ inv' = [inv EXCEPT ![t].events = Append(@, "record"), ![t].pc = "ble_refetch"]
  /\ UNCHANGED <<device_type, op, ctx_ordinal, scenario, artifacts, fatal,
                 n_calls, compile_calls, alias_call, sig_call>>

\* mutant: the local `result` is handed back instead of the cache's entry
BLE_Refetch_ReturnsLocal(t) ==
  /\ At(t, "ble_refetch")
  /\ inv' = [inv EXCEPT ![t].compile_result = inv[t].result,
                        ![t].result = 0,
                        ![t].events = Append(@, "get"),
                        ![t].pc = "fdc_check"]
  /\ UNCHANGED <<device_type, op, ctx_ordinal, scenario, compilation_cache_, artifacts, fatal,
                 n_calls, compile_calls, recorded, got, alias_call, sig_call>>

\* lines 49-50: fetch the entry again; the local `result` goes out of scope
BLE_Refetch(t) ==
  /\ At(t, "ble_refetch")
  /\ inv' = [inv EXCEPT ![t].compile_result = GetRecord(compilation_cache_, inv[t].signature),
                        ![t].result = 0,
                        ![t].events = Append(@, "get"),
                        ![t].pc = "fdc_check"]
  /\ got' = Fetched(got, inv[t].signature, GetRecord(compilation_cache_, inv[t].signature))
  /\ UNCHANGED <<device_type, op, ctx_ordinal, scenario, compilation_cache_, artifacts, fatal,
                 n_calls, compile_calls, recorded, alias_call, sig_call>>

\* mutant: the CHECK is dropped
CompileResultChecked_Dropped(compile_result) == TRUE

\* ForwardDataContent, line 184: CHECK(compile_result)
CompileResultChecked(compile_result) == compile_result # 0

\* lines 184-186: the CHECK, then compile_result->executable
FDC_CheckResult(t) ==
  /\ At(t, "fdc_check")
  /\ \E d \in DerefOutcomes(t) :
       IF ~ CompileResultChecked(inv[t].compile_result)
       THEN Abort(t, "CompilationFailure")
       ELSE IF d = "fault"
       THEN Abort(t, "UseAfterFree")
       ELSE /\ inv' = [inv EXCEPT ![t].pc = "fdc_alloc"]
            /\ UNCHANGED fatal
  /\ UNCHANGED <<device_type, op, ctx_ordinal, scenario, compilation_cache_, artifacts,
                 n_calls, compile_calls, recorded, got, alias_call, sig_call>>

\* lines 188-190: one allocation index per return blob
FDC_AllocIndices(t) ==
  /\ At(t, "fdc_alloc")
  /\ IF Len(inv[t].return_blobs) # ArtifactAt(inv[t].compile_result).n_allocation_indices
     THEN Abort(t, "ShapeMismatch")
     ELSE /\ inv' = [inv EXCEPT ![t].pc = "fdc_populate"]
          /\ UNCHANGED fatal
  /\ UNCHANGED <<device_type, op, ctx_ordinal, scenario, compilation_cache_, artifacts,
                 n_calls, compile_calls, recorded, got, alias_call, sig_call>>

\* mutant: the GPU case is forgotten
BlockHostUntilDone_Always(dev) == TRUE

\* lines 197-200
BlockHostUntilDone(dev) == dev # "kGPU"

\* mutant: only the operator's own outputs are populated, not the aliased ones
FDC_Populate_OrdinaryOnly(t) ==
  /\ At(t, "fdc_populate")
  /\ inv' = [inv EXCEPT
               ![t].launch_ctx.result_buffers =
                  [k \in 1..Len(op.output_bns) |-> inv[t].return_blobs[k].dptr],
               ![t].block_host_until_done = BlockHostUntilDone(device_type),
               ![t].events = Append(@, "populate"),
               ![t].pc = "le_marshal"]
  /\ UNCHANGED <<device_type, op, ctx_ordinal, scenario, compilation_cache_, artifacts, fatal,
                 n_calls, compile_calls, recorded, got, alias_call, sig_call>>

\* lines 194-200: PopulateResultBuffers, and the blocking policy
FDC_Populate(t) ==
  /\ At(t, "fdc_populate")
  /\ inv' = [inv EXCEPT
               ![t].launch_ctx.result_buffers =
                  [k \in 1..Len(inv[t].return_blobs) |-> inv[t].return_blobs[k].dptr],
               ![t].block_host_until_done = BlockHostUntilDone(device_type),
               ![t].events = Append(@, "populate"),
               ![t].pc = "le_marshal"]
  /\ UNCHANGED <<device_type, op, ctx_ordinal, scenario, compilation_cache_, artifacts, fatal,
                 n_calls, compile_calls, recorded, got, alias_call, sig_call>>

\* LaunchExecutable, lines 78-89: the device buffer of one input
DeviceMemoryBase(entry_blob, return_blobs) ==
  [ opaque |-> IF entry_blob.byte_size > 0 /\ entry_blob.dptr = NullPtr
               THEN return_blobs[1].dptr
               ELSE entry_blob.dptr,
    size |-> entry_blob.byte_size ]

\* mutant: the tuple CHECK of line 76 is dropped
LE_Marshal_NoTupleCheck(t) ==
  /\ At(t, "le_marshal")
  /\ LET c == inv[t]
         input_shapes == ArtifactAt(c.compile_result).xla_input_shapes
     IN IF Len(c.entry_blobs) # Len(input_shapes)
        THEN Abort(t, "ShapeMismatch")
        ELSE IF ~ (Len(c.return_blobs) > 0)
        THEN Abort(t, "MissingRequiredOutput")
        ELSE /\ inv' = [inv EXCEPT
                          ![t].arguments = [i \in 1..Len(input_shapes) |->
                                              DeviceMemoryBase(c.entry_blobs[i], c.return_blobs)],
                          ![t].pc = "le_run"]
             /\ UNCHANGED fatal
  /\ UNCHANGED <<device_type, op, ctx_ordinal, scenario, compilation_cache_, artifacts,
                 n_calls, compile_calls, recorded, got, alias_call, sig_call>>

\* LaunchExecutable, lines 65-95: the preconditions and the input buffers
LE_Marshal(t) ==
  /\ At(t, "le_marshal")
  /\ LET c == inv[t]
         input_shapes == ArtifactAt(c.compile_result).xla_input_shapes
     IN IF Len(c.entry_blobs) # Len(input_shapes)
        THEN Abort(t, "ShapeMismatch")
        ELSE IF ~ (Len(c.return_blobs) > 0)
        THEN Abort(t, "MissingRequiredOutput")
        ELSE IF \E i \in 1..Len(input_shapes) : input_shapes[i] = "tuple"
        THEN Abort(t, "UnsupportedInputShape")
        ELSE /\ inv' = [inv EXCEPT
                          ![t].arguments = [i \in 1..Len(input_shapes) |->
                                              DeviceMemoryBase(c.entry_blobs[i], c.return_blobs)],
                          ![t].pc = "le_run"]
             /\ UNCHANGED fatal
  /\ UNCHANGED <<device_type, op, ctx_ordinal, scenario, compilation_cache_, artifacts,
                 n_calls, compile_calls, recorded, got, alias_call, sig_call>>

\* what executable->RunAsync can return: an error status, a result that is
\* no tuple, or a tuple whose buffer at each return slot is null, the
\* caller's output buffer, or some other buffer.  Outside a single call
\* the executable writes every output in place or fails.
RunResults(c) ==
  LET slots == 1..Len(c.return_blobs)
  IN { [status_ok |-> FALSE, is_tuple |-> FALSE, buffers |-> <<>>],
       [status_ok |-> TRUE, is_tuple |-> TRUE,
        buffers |-> [k \in slots |-> c.return_blobs[k].dptr]] }
     \cup
     IF scenario # "single" THEN {}
     ELSE { [status_ok |-> TRUE, is_tuple |-> FALSE, buffers |-> <<>>] }
          \cup
          { [status_ok |-> TRUE, is_tuple |-> TRUE, buffers |-> b] :
              b \in { f \in [slots -> {NullPtr, ScratchPtr} \cup {c.return_blobs[k].dptr : k \in slots}] :
                        \A k \in slots : f[k] \in {NullPtr, ScratchPtr, c.return_blobs[k].dptr} } }

\* lines 97-106: executable->RunAsync(arguments, run_options)
LE_RunAsync(t) ==
  /\ At(t, "le_run")
  /\ \E d \in DerefOutcomes(t), r \in RunResults(inv[t]) :
       IF d = "fault"
       THEN Abort(t, "UseAfterFree")
       ELSE /\ inv' = [inv EXCEPT ![t].run_result = r,
                                  ![t].events = Append(@, "run"),
                                  ![t].pc = "le_block"]
            /\ UNCHANGED fatal
  /\ UNCHANGED <<device_type, op, ctx_ordinal, scenario, compilation_cache_, artifacts,
                 n_calls, compile_calls, recorded, got, alias_call, sig_call>>

\* lines 107-110: if (block_host_until_done) stream()->BlockHostUntilDone()
LE_Block(t) ==
  /\ At(t, "le_block")
  /\ inv' = [inv EXCEPT
               ![t].events = IF inv[t].block_host_until_done THEN Append(@, "wait") ELSE @,
               ![t].pc = "le_check"]
  /\ UNCHANGED <<device_type, op, ctx_ordinal, scenario, compilation_cache_, artifacts, fatal,
                 n_calls, compile_calls, recorded, got, alias_call, sig_call>>

\* mutant: only the first return slot is compared
ResultBuffersReused_FirstOnly(run_result, return_blobs) ==
  \A i \in 1..Len(return_blobs) :
    (i = 1 /\ run_result.buffers[i] # NullPtr) => run_result.buffers[i] = return_blobs[i].dptr

\* lines 117-121: every non-null result buffer is the output blob's buffer
ResultBuffersReused(run_result, return_blobs) ==
  \A i \in 1..Len(return_blobs) :
    run_result.buffers[i] # NullPtr => run_result.buffers[i] = return_blobs[i].dptr

\* lines 111-129: OF_CHECK_AND_ASSIGN on the status, then the result checks
LE_CheckResult(t) ==
  /\ At(t, "le_check")
  /\ LET c == inv[t]
     IN IF ~ c.run_result.status_ok
        THEN Abort(t, "RunFailed")
        ELSE IF ~ c.run_result.is_tuple
        THEN Abort(t, "ResultShapeViolation")
        ELSE IF ~ ResultBuffersReused(c.run_result, c.return_blobs)
        THEN Abort(t, "ResultShapeViolation")
        ELSE /\ inv' = [inv EXCEPT ![t].events = Append(@, "check"), ![t].pc = "done"]
             /\ UNCHANGED fatal
  /\ UNCHANGED <<device_type, op, ctx_ordinal, scenario, compilation_cache_, artifacts,
                 n_calls, compile_calls, recorded, got, alias_call, sig_call>>

\* line 204: ForwardDataContent returns
Return(t) ==
  /\ At(t, "done")
  /\ inv' = [inv EXCEPT ![t] = IdleInv]
  /\ UNCHANGED <<device_type, op, ctx_ordinal, scenario, compilation_cache_, artifacts, fatal,
                 n_calls, compile_calls, recorded, got, alias_call, sig_call>>

Next ==
  \E t \in Threads :
    \/ Begin(t)
    \/ BLE_CheckCache(t)
    \/ BLE_CreateCache(t)
    \/ BLE_GetRecord(t)
    \/ BLE_Compile(t)
    \/ BLE_Record(t)
    \/ BLE_Refetch(t)
    \/ FDC_CheckResult(t)
    \/ FDC_AllocIndices(t)
    \/ FDC_Populate(t)
    \/ LE_Marshal(t)
    \/ LE_RunAsync(t)
    \/ LE_Block(t)
    \/ LE_CheckResult(t)
    \/ Return(t)

Spec == Init /\ [][Next]_vars

(***************************************************************************)
(* SpecAlias: one call of AliasMutableInputsAndOutputs on drawn arguments. *)
(* Blob pointers are numbers: entry i is the blob 100 + i, the return      *)
(* tensors present before the call are the blobs 201, 202, ...             *)
(***************************************************************************)
AliasNames == {"a", "b", "c"}

AliasInputs ==
  { [ attr |-> [mutable |-> m],
      entry_blobs |-> [i \in 1..nb |-> 100 + i],
      entry_blob_names |-> names,
      return_blobs |-> [k \in 1..n0 |-> 200 + k],
      return_blob_names |-> [k \in 1..n0 |-> <<"out", k>>],
      aliases |-> <<>> ] :
    <<m, names, nb, n0>> \in
      { q \in (SUBSET AliasNames) \X SeqsUpTo(AliasNames, MaxAliasEntries)
                \X (0..(MaxAliasEntries + 1)) \X (0..MaxAliasReturns) :
          q[3] \in {Len(q[2]), Len(q[2]) + 1} } }

InitAlias ==
  /\ \E in \in AliasInputs : alias_call = [pc |-> "call", in |-> in, out |-> in]
  /\ sig_call = [pc |-> "unused"]
  /\ MainUnused

AliasCall ==
  /\ alias_call.pc = "call"
  /\ LET in == alias_call.in
         r == AliasMutableInputsAndOutputs(in.attr, in.entry_blobs,
                in.entry_blob_names, in.return_blobs, in.return_blob_names,
                in.aliases)
     IN alias_call' =
          [ pc |-> IF r.ok THEN "done" ELSE "abort",
            in |-> in,
            out |-> [ attr |-> in.attr,
                      entry_blobs |-> in.entry_blobs,
                      entry_blob_names |-> in.entry_blob_names,
                      return_blobs |-> r.st.return_blobs,
                      return_blob_names |-> r.st.return_blob_names,
                      aliases |-> r.st.aliases ] ]
  /\ UNCHANGED <<main_vars, sig_call>>

NextAlias == AliasCall

SpecAlias == InitAlias /\ [][NextAlias]_vars

(***************************************************************************)
(* SpecSig: the signatures BuildLocalExecutable computes for two calls a   *)
(* and b, whose arguments are drawn independently.  Call b carries one     *)
(* aliased return tensor more than call a.                                 *)
(***************************************************************************)
SigNames == {"add1", "mul2"}

SigBlobs ==
  { Blob(<<4>>, "kFloat", 11, 16), Blob(<<4>>, "kFloat", 12, 16),
    Blob(<<8>>, "kFloat", 13, 32), Blob(<<4>>, "kInt32", 14, 16) }

SigCalls(extra) ==
  { [ launch_ctx |-> [builder_name |-> n, device_ordinal |-> d],
      entry_blobs |-> eb,
      return_blobs |-> <<Blob(<<4>>, "kFloat", 21, 16)>> \o extra,
      aliases |-> [k \in 1..Len(extra) |->
                     [output_index |-> <<k>>, param_number |-> 0, param_index |-> <<>>]] ] :
    <<n, d, eb>> \in SigNames \X (0..MaxOrdinal) \X SeqsUpTo(SigBlobs, MaxSigEntries) }

InitSig ==
  /\ \E a \in SigCalls(<<>>), b \in SigCalls(<<Blob(<<8>>, "kFloat", 22, 32)>>) :
       sig_call = [pc |-> "call", a |-> a, b |-> b]
  /\ alias_call = [pc |-> "unused"]
  /\ MainUnused

SigCompute ==
  /\ sig_call.pc = "call"
  /\ LET a == sig_call.a
         b == sig_call.b
     IN sig_call' =
          [ pc |-> "done", a |-> a, b |-> b,
            sig_a |-> SignatureOfCall(a.launch_ctx, a.entry_blobs, a.return_blobs, a.aliases),
            sig_b |-> SignatureOfCall(b.launch_ctx, b.entry_blobs, b.return_blobs, b.aliases) ]
  /\ UNCHANGED <<main_vars, alias_call>>

NextSig == SigCompute

SpecSig == InitSig /\ [][NextSig]_vars


(***************************************************************************)
(* Claims about AliasMutableInputsAndOutputs (checked under SpecAlias)     *)
(***************************************************************************)
AliasDone == alias_call.pc = "done"

\* 0-based indices of the entries whose name is declared mutable
MutableIdx(c) ==
  { i \in 0..(Len(c.entry_blob_names) - 1) :
      c.entry_blob_names[i + 1] \in c.attr.mutable }

\* how many mutable entries precede entry i
RankOf(c, i) == Cardinality({k \in MutableIdx(c) : k < i})

AliasesOfName(c, n) ==
  { k \in 1..Len(c.aliases) :
      c.entry_blob_names[c.aliases[k].param_number + 1] = n }

AliasesOfSlot(c, i) ==
  { k \in 1..Len(c.aliases) : c.aliases[k].param_number = i }

Occurrences(c, n) ==
  { i \in 1..Len(c.entry_blob_names) : c.entry_blob_names[i] = n }

\* C8: entries are processed in entry-list order; the j-th mutable entry
\* (0-based index i) appends entry i's tensor, its declared output name, and
\* the alias entry (output slot = returns present before the call + j, input
\* slot i, empty nested path); so the return tensor at every alias entry's
\* output slot is the tensor at its input slot.
C8_AliasOrder ==
  AliasDone =>
    LET in == alias_call.in
        out == alias_call.out
        n0 == Len(in.return_blobs)
        M == MutableIdx(in)
    IN /\ Len(out.aliases) = Cardinality(M)
       /\ Len(out.return_blobs) = n0 + Cardinality(M)
       /\ Len(out.return_blob_names) = n0 + Cardinality(M)
       /\ \A i \in M :
            LET j == RankOf(in, i)
            IN /\ out.aliases[j + 1] = [ output_index |-> <<n0 + j>>,
                                         param_number |-> i,
                                         param_index |-> <<>> ]
               /\ out.return_blobs[n0 + j + 1] = in.entry_blobs[i + 1]
               /\ out.return_blob_names[n0 + j + 1] =
                    OutputArg(in.attr, in.entry_blob_names[i + 1])
       /\ \A k \in 1..Len(out.aliases) :
            out.return_blobs[out.aliases[k].output_index[1] + 1] =
              out.entry_blobs[out.aliases[k].param_number + 1]

\* two mutable entries with a non-mutable one between them, after one
\* pre-existing return tensor
C8_Witness ==
  /\ AliasDone
  /\ Len(alias_call.in.return_blobs) = 1
  /\ MutableIdx(alias_call.in) = {0, 2}
  /\ Len(alias_call.out.aliases) = 2
  /\ alias_call.out.aliases[2].output_index = <<2>>
  /\ alias_call.out.aliases[2].param_number = 2

\* C9 as stated: every declared mutable argument name has exactly one alias
\* entry, for every entry-name list and every declared mutable set.
C9_OnePerDeclaredName ==
  AliasDone =>
    \A n \in alias_call.in.attr.mutable :
      Cardinality(AliasesOfName(alias_call.out, n)) = 1

\* C9 amended: every entry position whose name is declared mutable has
\* exactly one alias entry, an entry position whose name is not has none, so
\* a declared mutable name has as many alias entries as it has occurrences
\* in the entry-name list (one if it occurs once, none if it is absent).
C9_OnePerMutableEntry ==
  AliasDone =>
    LET in == alias_call.in
        out == alias_call.out
    IN /\ \A i \in 0..(Len(in.entry_blob_names) - 1) :
            Cardinality(AliasesOfSlot(out, i)) =
              IF i \in MutableIdx(in) THEN 1 ELSE 0
       /\ \A n \in in.attr.mutable :
            Cardinality(AliasesOfName(out, n)) = Cardinality(Occurrences(in, n))

\* a declared mutable name that occurs twice, and another that is absent
C9_Witness ==
  /\ AliasDone
  /\ alias_call.in.entry_blob_names = <<"a", "b", "a">>
  /\ alias_call.in.attr.mutable = {"a", "c"}
  /\ Len(alias_call.out.aliases) = 2

\* C10: an entry not declared mutable gets no alias entry and is not
\* appended to the return list; entry tensors and names are not modified;
\* the return tensors and names present before the call stay as an
\* unchanged prefix.
C10_AliasFrame ==
  AliasDone =>
    LET in == alias_call.in
        out == alias_call.out
        n0 == Len(in.return_blobs)
    IN /\ out.entry_blobs = in.entry_blobs
       /\ out.entry_blob_names = in.entry_blob_names
       /\ Len(out.return_blobs) >= n0
       /\ Len(out.return_blob_names) >= n0
       /\ SubSeq(out.return_blobs, 1, n0) = in.return_blobs
       /\ SubSeq(out.return_blob_names, 1, n0) = in.return_blob_names
       /\ \A i \in 0..(Len(in.entry_blob_names) - 1) :
            ~ IsMutableArg(in.attr, in.entry_blob_names[i + 1]) =>
              /\ AliasesOfSlot(out, i) = {}
              /\ \A k \in (n0 + 1)..Len(out.return_blobs) :
                   out.return_blobs[k] # in.entry_blobs[i + 1]

\* a non-mutable entry between two mutable ones, with pre-existing returns
C10_Witness ==
  /\ AliasDone
  /\ alias_call.in.entry_blob_names = <<"a", "b", "c">>
  /\ alias_call.in.attr.mutable = {"a", "c"}
  /\ Len(alias_call.in.return_blobs) = 2
  /\ Len(alias_call.out.return_blobs) = 4

(***************************************************************************)
(* Claims about the signature (checked under SpecSig)                      *)
(***************************************************************************)
ShapesAndTypes(entry_blobs) ==
  [i \in 1..Len(entry_blobs) |-> [s |-> entry_blobs[i].shape, t |-> entry_blobs[i].data_type]]

SameKeyParts(a, b) ==
  /\ a.launch_ctx.builder_name = b.launch_ctx.builder_name
  /\ a.launch_ctx.device_ordinal = b.launch_ctx.device_ordinal
  /\ ShapesAndTypes(a.entry_blobs) = ShapesAndTypes(b.entry_blobs)

\* C2: two invocations get equal signatures if and only if subgraph
\* identity, device ordinal and the ordered entry shapes and element types
\* are equal, whatever the data pointers, return tensors and alias entries.
C2_SignatureKey ==
  sig_call.pc = "done" =>
    ((sig_call.sig_a = sig_call.sig_b) <=> SameKeyParts(sig_call.a, sig_call.b))

\* equal signatures for calls whose entry tensors are different buffers and
\* whose return tensors and alias entries differ
C2_Witness ==
  /\ sig_call.pc = "done"
  /\ sig_call.sig_a = sig_call.sig_b
  /\ Len(sig_call.a.entry_blobs) = 2
  /\ sig_call.a.launch_ctx.device_ordinal = 1
  /\ sig_call.a.entry_blobs[1].dptr # sig_call.b.entry_blobs[1].dptr
  /\ sig_call.a.return_blobs # sig_call.b.return_blobs
  /\ sig_call.a.aliases # sig_call.b.aliases

(***************************************************************************)
(* Claims about the launch unit (checked under Spec)                       *)
(***************************************************************************)
Has(seq, x) == \E i \in 1..Len(seq) : seq[i] = x

Launched(t) == Has(inv[t].events, "run")

\* the thread has computed its signature and looked it up
PastLookup(t) == Has(inv[t].events, "get")

\* BuildLocalExecutable has returned and ForwardDataContent has not
PastBuild(t) ==
  inv[t].pc \in {"fdc_check", "fdc_alloc", "fdc_populate", "le_marshal", "le_run",
                 "le_block", "le_check", "done"}

\* between CHECK(compile_result) and the end of LaunchExecutable
HoldsArtifact(t) ==
  inv[t].pc \in {"fdc_alloc", "fdc_populate", "le_marshal", "le_run", "le_block", "le_check"}

\* from the return of BuildLocalExecutable to the end of LaunchExecutable,
\* with an artifact in hand
InFlightWithArtifact(t) ==
  Running /\ PastBuild(t) /\ inv[t].pc # "done" /\ inv[t].compile_result # 0

KeyOfBlobs(entry_blobs) ==
  [i \in 1..Len(entry_blobs) |-> <<entry_blobs[i].shape, entry_blobs[i].data_type>>]

\* C1: when execute calls run one after another, the compiler is invoked
\* exactly once per distinct signature: a call reaches the compiler only if
\* no earlier call had its signature, every call that leaves
\* BuildLocalExecutable has a signature compiled exactly once, and a call's
\* signature equals an earlier one exactly when name, ordinal and the entry
\* shapes and types are those of the earlier call.
C1_CompileOncePerSignature ==
  scenario = "serial" =>
    /\ \A s \in DOMAIN compile_calls : compile_calls[s] = 1
    /\ \A t \in Threads :
         /\ inv[t].pc = "ble_compile" => inv[t].signature \notin DOMAIN compile_calls
         /\ PastBuild(t) => inv[t].signature \in DOMAIN compile_calls
         /\ PastLookup(t) =>
              \A s \in DOMAIN compile_calls :
                (s = inv[t].signature) <=>
                  /\ s.name = inv[t].launch_ctx.builder_name
                  /\ s.device_ordinal = inv[t].launch_ctx.device_ordinal
                  /\ s.entry_shapes = KeyOfBlobs(inv[t].entry_blobs)

\* the third of three serial calls returns without having compiled, after
\* two compilations for two signatures
C1_Witness ==
  /\ scenario = "serial"
  /\ n_calls = 3
  /\ Cardinality(DOMAIN compile_calls) = 2
  /\ \E t \in Threads : inv[t].pc = "done" /\ ~ Has(inv[t].events, "compile")

\* C3: two interleaved invocations with the same signature can both miss
\* and both compile; once both have recorded, the cache holds one entry for
\* the signature, the artifact recorded last.
C3_LastRecordWins ==
  (scenario = "interleaved" /\ n_calls = 2) =>
    \A s \in DOMAIN recorded :
      Cardinality(recorded[s].all) = 2 =>
        /\ ~ compilation_cache_.null
        /\ s \in DOMAIN compilation_cache_.records
        /\ compilation_cache_.records[s] = recorded[s].last

\* both invocations missed, the compiler ran twice for the one signature,
\* both recorded
C3_Witness ==
  /\ scenario = "interleaved"
  /\ n_calls = 2
  /\ \E s \in DOMAIN recorded \cap DOMAIN compilation_cache_.records :
       /\ compile_calls[s] = 2
       /\ recorded[s].all = {1, 2}
       /\ compilation_cache_.records[s] = recorded[s].last
       /\ \A t \in Threads : inv[t].signature = s /\ PastBuild(t)

\* C4: every artifact an in-flight invocation holds, from the return of
\* BuildLocalExecutable to the end of LaunchExecutable, is the one the cache
\* entry for its signature owns.
C4_HeldArtifactOwnedByCache ==
  \A t \in Threads :
    InFlightWithArtifact(t) =>
      /\ ~ compilation_cache_.null
      /\ inv[t].signature \in DOMAIN compilation_cache_.records
      /\ compilation_cache_.records[inv[t].signature] = inv[t].compile_result

\* C5: no call reaches the launch with a missing artifact, a call that
\* returns has launched, and a call that aborts because no artifact could
\* be produced has not launched.
C5_NoLaunchWithoutArtifact ==
  \A t \in Threads :
    /\ (HoldsArtifact(t) \/ inv[t].pc = "done" \/ Launched(t)) =>
         inv[t].compile_result \in DOMAIN artifacts
    /\ inv[t].pc = "done" => Launched(t)
    /\ (fatal.kind = "CompilationFailure" /\ fatal.thread = t) => ~ Launched(t)

\* a miss on which the compiler produced nothing: the process aborted in
\* BuildLocalExecutable
C5_Witness ==
  /\ fatal.kind = "CompilationFailure"
  /\ inv[fatal.thread].events = <<"alias", "get">>
  /\ inv[fatal.thread].compile_result = 0

\* C6: on a host device every invocation waits on the stream after the
\* launch and before it returns; on a GPU the stream is never waited on.
C6_BlockingPolicy ==
  \A t \in Threads :
    LET e == inv[t].events
    IN /\ \A i \in 1..Len(e) : e[i] = "wait" => \E j \in 1..(i - 1) : e[j] = "run"
       /\ inv[t].pc \in {"le_check", "done"} => (Has(e, "wait") <=> device_type = "kCPU")
       /\ device_type = "kGPU" => ~ Has(e, "wait")

\* a CPU invocation about to return: launched, then waited
C6_Witness ==
  /\ device_type = "kCPU"
  /\ \E t \in Threads :
       /\ inv[t].pc = "done"
       /\ \E i \in 1..(Len(inv[t].events) - 1) :
            inv[t].events[i] = "run" /\ inv[t].events[i + 1] = "wait"

\* the run result is a tuple whose buffer at every return slot is null or
\* the caller's output buffer
BufferIdentity(c) ==
  /\ c.run_result.is_tuple
  /\ \A k \in 1..Len(c.return_blobs) :
       c.run_result.buffers[k] \in {NullPtr, c.return_blobs[k].dptr}

\* C7: LaunchExecutable completes without a ResultShapeViolation exactly
\* when the run result is a tuple and every return slot's buffer is null or
\* pointer-identical to the output buffer at that slot.
C7_BufferIdentity ==
  \A t \in Threads :
    /\ inv[t].pc = "done" => BufferIdentity(inv[t])
    /\ (fatal.kind = "ResultShapeViolation" /\ fatal.thread = t) => ~ BufferIdentity(inv[t])
    /\ (fatal.kind = "RunFailed" /\ fatal.thread = t) => ~ inv[t].run_result.status_ok

\* a tuple with a foreign buffer at the second of two return slots: fatal
C7_Witness ==
  /\ fatal.kind = "ResultShapeViolation"
  /\ LET c == inv[fatal.thread]
     IN /\ Len(c.return_blobs) = 2
        /\ c.run_result.is_tuple
        /\ c.run_result.buffers[1] = c.return_blobs[1].dptr
        /\ c.run_result.buffers[2] = ScratchPtr


\* what the checks before the launch reject: lines 65, 67, 76 and 190
PreLaunchViolation(c) ==
  LET a == ArtifactAt(c.compile_result)
  IN \/ Len(c.entry_blobs) # Len(a.xla_input_shapes)
     \/ Len(c.return_blobs) = 0
     \/ \E i \in 1..Len(a.xla_input_shapes) : a.xla_input_shapes[i] = "tuple"
     \/ a.n_allocation_indices # Len(c.return_blobs)

PreLaunchFatal == {"ShapeMismatch", "MissingRequiredOutput", "UnsupportedInputShape"}

\* C11: if the entry tensor count differs from the artifact's input-shape
\* count, or there is no return tensor, or an input shape is a tuple, or the
\* allocation-index count differs from the return tensor count, the
\* invocation aborts and RunAsync is not called in it: no invocation at or
\* past the launch is in one of these cases, and an invocation aborted by
\* one of these checks is in one of them and has not launched.
C11_PreLaunchChecks ==
  \A t \in Threads :
    LET c == inv[t]
    IN /\ (Launched(t) \/ c.pc \in {"le_run", "le_block", "le_check", "done"}) =>
            ~ PreLaunchViolation(c)
       /\ (fatal.thread = t /\ fatal.kind \in PreLaunchFatal) =>
            (PreLaunchViolation(c) /\ ~ Launched(t))

\* an artifact with a tuple-shaped input: aborted after the result buffers
\* were populated, before the launch
C11_Witness ==
  /\ fatal.kind = "UnsupportedInputShape"
  /\ Has(inv[fatal.thread].events, "populate")
  /\ ~ Launched(fatal.thread)
  /\ \E i \in 1..Len(inv[fatal.thread].entry_blobs) :
       ArtifactAt(inv[fatal.thread].compile_result).xla_input_shapes[i] = "tuple"

\* C12: the cache never evicts: a signature that has been recorded in the
\* launch unit's cache has an entry in it in every later state, after any
\* sequence or interleaving of calls.
C12_NeverEvicts ==
  \A s \in DOMAIN recorded :
    /\ ~ compilation_cache_.null
    /\ s \in DOMAIN compilation_cache_.records

\* C14: the launch unit's cache is created at most once and never replaced:
\* a step that creates the cache object is taken only while there is none,
\* and no signature recorded before the step has lost its entry after it.
C14_CacheCreatedOnce ==
  [][ \A t \in Threads :
        BLE_CreateCache(t) =>
          /\ compilation_cache_.null
          /\ \A s \in DOMAIN recorded : s \in DOMAIN compilation_cache_'.records ]_vars

EntryOf(cache, signature) ==
  IF ~ cache.null /\ signature \in DOMAIN cache.records THEN cache.records[signature] ELSE 0

\* C15: on a miss BuildLocalExecutable records the artifact it compiled
\* under the signature it computed for the call, and what it returns, on
\* the hit path and on the miss path, is the value the cache holds for that
\* signature when it returns (an artifact on a hit), with no local
\* shared_ptr left behind.
C15_ReturnsCacheEntry ==
  [][ \A t \in Threads :
        /\ (inv[t].pc = "ble_record" /\ inv'[t].pc = "ble_refetch") =>
             /\ inv[t].signature =
                  SignatureOfCall(inv[t].launch_ctx, inv[t].entry_blobs,
                                  inv[t].return_blobs, inv[t].aliases)
             /\ inv[t].result = inv[t].call
             /\ EntryOf(compilation_cache_', inv[t].signature) = inv[t].result
        /\ (inv[t].pc \in {"ble_get", "ble_refetch"} /\ inv'[t].pc = "fdc_check") =>
             /\ inv'[t].compile_result = EntryOf(compilation_cache_', inv'[t].signature)
             /\ inv'[t].result = 0
             /\ inv[t].pc = "ble_get" => inv'[t].compile_result # 0 ]_vars

\* a miss whose re-fetch handed back the entry another invocation recorded
\* over its own: BuildLocalExecutable has returned the cache's artifact, not
\* the one this call compiled
C15_Witness ==
  /\ scenario = "interleaved"
  /\ \E t \in Threads :
       /\ inv[t].pc = "fdc_check"
       /\ inv[t].events = <<"alias", "get", "compile", "record", "get">>
       /\ inv[t].compile_result \notin {0, inv[t].call}
       /\ inv[t].compile_result = EntryOf(compilation_cache_, inv[t].signature)

\* the input gets the placeholder of lines 85-87: no data, positive size
ReceivesPlaceholder(entry_blob) ==
  entry_blob.byte_size > 0 /\ entry_blob.dptr = NullPtr

\* C16: after the inputs are marshalled, every device buffer passed to the
\* executable with a positive byte size has a non-null data pointer, for
\* every combination of entry tensors, return tensors and mutable
\* declarations.
C16_PlaceholderNonNull ==
  \A t \in Threads :
    \A i \in 1..Len(inv[t].arguments) :
      inv[t].arguments[i].size > 0 => inv[t].arguments[i].opaque # NullPtr

\* C17: no input slot that receives the placeholder substitution is the
\* input slot of an alias entry.
C17_PlaceholderNotAliased ==
  \A t \in Threads :
    \A i \in 1..Len(inv[t].arguments) :
      ReceivesPlaceholder(inv[t].entry_blobs[i]) =>
        \A k \in 1..Len(inv[t].aliases) : inv[t].aliases[k].param_number # i - 1

\* every b in e comes after an a
Before(e, a, b) ==
  \A i \in 1..Len(e) : e[i] = b => \E j \in 1..(i - 1) : e[j] = a

Count(e, a) == Cardinality({i \in 1..Len(e) : e[i] = a})

InCall(t) == inv[t].pc \notin {"idle", "dead"}

\* C18 as stated: within one call the cache is asked first; alias
\* resolution is performed only on a miss and after the lookup, followed by
\* compilation, followed by record; then the executable is invoked.
C18_AliasOnlyOnMiss ==
  \A t \in Threads :
    LET e == inv[t].events
    IN /\ Before(e, "get", "alias")
       /\ Before(e, "alias", "compile")
       /\ Before(e, "compile", "record")
       /\ Before(e, "get", "run")
       /\ (Launched(t) /\ ~ Has(e, "compile")) => ~ Has(e, "alias")

\* C18 amended: within one call alias resolution is performed first, once,
\* on every call (hit or miss) and before the cache lookup, so the return
\* list carries one aliased tensor per mutable entry from then on; then the
\* cache is asked by signature; the compiler runs only directly after a
\* lookup that missed, followed by record; the executable is invoked after
\* the lookup on a hit and after the record on a miss.
C18_AliasThenLookup ==
  \A t \in Threads :
    LET c == inv[t]
        e == c.events
    IN /\ InCall(t) =>
            /\ e # <<>>
            /\ e[1] = "alias"
            /\ Count(e, "alias") = 1
            /\ Len(c.aliases) =
                 Cardinality({i \in 1..Len(op.input_bns) : IsMutableArg(op.attr, op.input_bns[i])})
            /\ Len(c.return_blobs) = Len(op.output_bns) + Len(c.aliases)
       /\ Before(e, "alias", "get")
       /\ Before(e, "get", "compile")
       /\ Before(e, "compile", "record")
       /\ Before(e, "get", "run")
       /\ Has(e, "compile") => (Len(e) >= 3 /\ e[2] = "get" /\ e[3] = "compile")
       /\ c.pc = "ble_compile" => (e = <<"alias", "get">> /\ c.compile_result = 0)
       /\ (Running /\ PastBuild(t) /\ ~ Has(e, "compile")) => c.compile_result # 0
       /\ (Launched(t) /\ Has(e, "compile")) => Before(e, "record", "run")

\* a hit: the call resolved its alias, then looked up, and launched without
\* compiling
C18_Witness ==
  /\ scenario = "serial"
  /\ \E t \in Threads :
       /\ inv[t].events = <<"alias", "get", "populate", "run">>
       /\ Len(inv[t].aliases) = 1
       /\ Len(inv[t].return_blobs) = 2
       /\ inv[t].return_blobs[2] = inv[t].entry_blobs[1]

IsPrefix(a, b) ==
  Len(a) <= Len(b) /\ \A i \in 1..Len(a) : a[i] = b[i]

IsLaunchEvent(x) == x \in {"populate", "run", "wait", "check"}

\* the events of a call from PopulateResultBuffers on
LaunchEvents(e) == SelectSeq(e, IsLaunchEvent)

\* the order of lines 194 and 97-121 for a call with the given blocking flag
LaunchOrder(block_host_until_done) ==
  IF block_host_until_done
  THEN <<"populate", "run", "wait", "check">>
  ELSE <<"populate", "run", "check">>

\* C19: in every invocation, on a hit and on a miss alike, the return
\* buffers (ordinary and aliased) are placed into the launch context's
\* result buffers, then the executable is invoked, then the stream is waited
\* on if and only if blocking was requested, then the result checks run; an
\* invocation that returns went through all of them.
C19_LaunchOrder ==
  \A t \in Threads :
    LET c == inv[t]
        e == c.events
    IN /\ IsPrefix(LaunchEvents(e), LaunchOrder(c.block_host_until_done))
       /\ Before(e, "get", "populate")
       /\ c.pc = "done" => LaunchEvents(e) = LaunchOrder(c.block_host_until_done)
       /\ Launched(t) =>
            /\ Len(c.launch_ctx.result_buffers) = Len(op.output_bns) + Len(c.aliases)
            /\ c.launch_ctx.result_buffers =
                 [k \in 1..Len(c.return_blobs) |-> c.return_blobs[k].dptr]

\* a hit on a host device, about to return: populated (one ordinary, one
\* aliased buffer), launched, waited, checked
C19_Witness ==
  /\ device_type = "kCPU"
  /\ \E t \in Threads :
       /\ inv[t].pc = "done"
       /\ inv[t].events = <<"alias", "get", "populate", "run", "wait", "check">>
       /\ Len(inv[t].launch_ctx.result_buffers) = 2
       /\ inv[t].launch_ctx.result_buffers[2] = inv[t].entry_blobs[1].dptr

====
